---- MODULE Spec2Model ----
(***************************************************************************)
(* Model of read_waveplus.py: the WavePlus device session (discovery by    *)
(* serial number, connect, read, disconnect), the Sensors decoder and the  *)
(* poll loop of the __main__ block.                                        *)
(*                                                                         *)
(* Python values are encoded so that TLC can compare them:                 *)
(*   - a Peripheral / characteristic object is the positive number of the  *)
(*     connection it belongs to, and None is 0 (NoHandle);                 *)
(*   - MacAddr is a string, and None is the string "None" (NoAddr);        *)
(*   - a hex string is a sequence of hex digits 0..15;                     *)
(*   - the result of parseSerialNumber is a tagged record: an integer      *)
(*     serial, the string "Unknown", or the exception the call raises.     *)
(*                                                                         *)
(* The BLE transport (bluepy) is outside the repository: each of its calls *)
(* (scan, Peripheral, getCharacteristics, read, disconnect) either returns *)
(* or raises, chosen nondeterministically.                                 *)
(***************************************************************************)
EXTENDS Integers, Sequences, FiniteSets, TLC

\* ------------------------------------------------------------------ bounds
\* Poll cycles the loop may complete before the model stops it.
MaxCycles == 2
\* Advertising devices returned by one scan burst.
MaxDevices == 2
\* Method calls the session driver makes on one WavePlus object.
MaxCalls == 3
\* Longest manufacturer payload applied to parseSerialNumber on its own, in
\* bytes (at least 6: the ID and the four serial bytes).
MaxPayload == 7

\* ------------------------------------------------------- program constants
\* `searchCount < 50`: the scan-burst budget of connect().
MaxSearch == 50
\* 0x0334, the manufacturer ID parseSerialNumber expects.
ManufacturerId == 820
\* numSensors with and without air quality sensors.
NumSensorsAirQuality == 7
NumSensorsBasic == 4
\* The only sensor_version Sensors.set accepts.
SupportedVersion == 1
\* Largest raw radon value conv2radon passes through.
RadonMax == 16383
\* Length of the frame struct.unpack('<BBBBHHHHHHHH') accepts: 4 bytes and
\* 8 words of 2 bytes.
FrameLen == 20
\* Largest value of an 'H' item of that format (unsigned 16 bits).
WordMax == 65535

NoHandle == 0
NoAddr == "None"

\* -------------------------------------------------------- parseSerialNumber
\* bytearray.fromhex: two hex digits per byte; an odd number of digits raises.
fromhex(h) ==
    [i \in 1..(Len(h) \div 2) |-> 16 * h[2 * i - 1] + h[2 * i]]

\* ManuData[i] with Python's 0-based index on a bytearray of the given bytes.
\* The caller checks IndexOk first: an index past the end raises IndexError.
IndexOk(ManuData, i) == i + 1 <= Len(ManuData)

Byte(ManuData, i) == ManuData[i + 1]

\* The value of getValueText(255): None, or the hex text of the manufacturer
\* data (kind "hex", digits in field hex). The literal string "None" is the
\* second spelling the function accepts for a missing value.
ManuNone == [kind |-> "None", hex |-> <<>>]

ManuNoneStr == [kind |-> "NoneStr", hex |-> <<>>]

ManuHex(h) == [kind |-> "hex", hex |-> h]

SNUnknown == [tag |-> "Unknown", val |-> 0]

SNRaise(e) == [tag |-> e, val |-> 0]

SNValue(v) == [tag |-> "SN", val |-> v]

\* A parseSerialNumber that reads bytes 2..5 most significant byte first.
parseSerialNumber_BigEndian(ManuDataHexStr) ==
    IF ManuDataHexStr.kind \in {"None", "NoneStr"}
    THEN SNUnknown
    ELSE IF Len(ManuDataHexStr.hex) % 2 # 0
    THEN SNRaise("ValueError")
    ELSE LET ManuData == fromhex(ManuDataHexStr.hex) IN
         IF ~IndexOk(ManuData, 1)
         THEN SNRaise("IndexError")
         ELSE IF Byte(ManuData, 1) * 256 + Byte(ManuData, 0) = ManufacturerId
         THEN IF ~IndexOk(ManuData, 5)
              THEN SNRaise("IndexError")
              ELSE SNValue(Byte(ManuData, 5)
                           + Byte(ManuData, 4) * 256
                           + Byte(ManuData, 3) * 65536
                           + Byte(ManuData, 2) * 16777216)
         ELSE SNUnknown

\* A parseSerialNumber that does not look at the manufacturer ID.
parseSerialNumber_AnyId(ManuDataHexStr) ==
    IF ManuDataHexStr.kind \in {"None", "NoneStr"}
    THEN SNUnknown
    ELSE IF Len(ManuDataHexStr.hex) % 2 # 0
    THEN SNRaise("ValueError")
    ELSE LET ManuData == fromhex(ManuDataHexStr.hex) IN
         IF ~IndexOk(ManuData, 5)
         THEN SNRaise("IndexError")
         ELSE SNValue(Byte(ManuData, 2)
                      + Byte(ManuData, 3) * 256
                      + Byte(ManuData, 4) * 65536
                      + Byte(ManuData, 5) * 16777216)

parseSerialNumber(ManuDataHexStr) ==
    IF ManuDataHexStr.kind \in {"None", "NoneStr"}
    THEN SNUnknown
    ELSE IF Len(ManuDataHexStr.hex) % 2 # 0
    THEN SNRaise("ValueError")
    ELSE LET ManuData == fromhex(ManuDataHexStr.hex) IN
         IF ~IndexOk(ManuData, 1)
         THEN SNRaise("IndexError")
         ELSE IF Byte(ManuData, 1) * 256 + Byte(ManuData, 0) = ManufacturerId
         THEN IF ~IndexOk(ManuData, 5)
              THEN SNRaise("IndexError")
              ELSE SNValue(Byte(ManuData, 2)
                           + Byte(ManuData, 3) * 256
                           + Byte(ManuData, 4) * 65536
                           + Byte(ManuData, 5) * 16777216)
         ELSE SNUnknown

\* ------------------------------------------------------ advertising devices
\* Manufacturer data seen on the air, as getValueText(255) returns it.
\* "340301000000": ID 0x0334, serial 1.
PayloadSerial1 == ManuHex(<<3, 4, 0, 3, 0, 1, 0, 0, 0, 0, 0, 0>>)

\* "340302010000": ID 0x0334, serial 258.
PayloadSerial258 == ManuHex(<<3, 4, 0, 3, 0, 2, 0, 1, 0, 0, 0, 0>>)

\* "4c0001000000": another vendor's ID with the bytes of serial 1 behind it.
PayloadForeign == ManuHex(<<4, 12, 0, 0, 0, 1, 0, 0, 0, 0, 0, 0>>)

\* "340301": ID 0x0334 followed by one byte only.
PayloadShort == ManuHex(<<3, 4, 0, 3, 0, 1>>)

\* The serial numbers given on the command line (args.serial, an int).
TargetSerials == {1, 258}

\* A discovered device: dev.addr and dev.getValueText(255).
Devices ==
    { [addr |-> "a1", manu |-> PayloadSerial1],
      [addr |-> "a2", manu |-> PayloadSerial258],
      [addr |-> "a3", manu |-> PayloadForeign],
      [addr |-> "a4", manu |-> ManuNone],
      [addr |-> "a5", manu |-> PayloadShort] }

\* What scanner.scan(0.1) may return: the devices of one burst, in order.
ScanResults == UNION { [1..n -> Devices] : n \in 0..MaxDevices }

\* The for loop of connect() over one burst, from position i on: the address
\* of the first device whose serial equals target ("found"), "none" when the
\* loop runs to its end, or the exception parseSerialNumber raises on the way.
RECURSIVE ForDevices(_, _, _)
ForDevices(devs, i, target) ==
    IF i > Len(devs)
    THEN [res |-> "none", addr |-> NoAddr]
    ELSE LET SNp == parseSerialNumber(devs[i].manu) IN
         IF SNp.tag \notin {"SN", "Unknown"}
         THEN [res |-> SNp.tag, addr |-> NoAddr]
         ELSE IF SNp.tag = "SN" /\ SNp.val = target
         THEN [res |-> "found", addr |-> devs[i].addr]
         ELSE ForDevices(devs, i + 1, target)

\* ------------------------------------------------------------------ Sensors
\* struct.unpack('<BBBBHHHHHHHH', rawdata): four bytes, then eight
\* little-endian 16-bit words. rawData[i] of the source is element i + 1 here.
struct_unpack(rawdata) ==
    [i \in 1..12 |->
        IF i <= 4 THEN rawdata[i]
        ELSE rawdata[2 * i - 5] + 256 * rawdata[2 * i - 4]]

\* A sensor value: a Python float num/den, a Python int, or the string "N/A".
Float(num, den) == [kind |-> "float", num |-> num, den |-> den]

IntVal(n) == [kind |-> "int", num |-> n, den |-> 1]

NotAvailable == [kind |-> "N/A", num |-> 0, den |-> 1]

\* A conv2radon whose upper limit is exclusive.
conv2radon_OffByOne(radon_raw) ==
    IF 0 <= radon_raw /\ radon_raw < RadonMax
    THEN IntVal(radon_raw)
    ELSE NotAvailable

conv2radon(radon_raw) ==
    IF 0 <= radon_raw /\ radon_raw <= RadonMax
    THEN IntVal(radon_raw)
    ELSE NotAvailable

\* A processor that takes every field one position later in rawData, so that
\* humidity comes from the first 16-bit word.
processor_FromWords(rawData) ==
    [sensor \in 0..6 |->
        CASE sensor = 0 -> Float(rawData[5], 2)
          [] sensor = 1 -> conv2radon(rawData[6])
          [] sensor = 2 -> conv2radon(rawData[7])
          [] sensor = 3 -> Float(rawData[8], 100)
          [] sensor = 4 -> Float(rawData[9], 50)
          [] sensor = 5 -> Float(rawData[10], 1)
          [] sensor = 6 -> Float(rawData[11], 1)]

\* The processor dictionary of Sensors.set, keyed by sensor index 0..6.
processor(rawData) ==
    [sensor \in 0..6 |->
        CASE sensor = 0 -> Float(rawData[2], 2)
          [] sensor = 1 -> conv2radon(rawData[5])
          [] sensor = 2 -> conv2radon(rawData[6])
          [] sensor = 3 -> Float(rawData[7], 100)
          [] sensor = 4 -> Float(rawData[8], 50)
          [] sensor = 5 -> Float(rawData[9], 1)
          [] sensor = 6 -> Float(rawData[10], 1)]

Units == <<"%rH", "Bq/m3", "Bq/m3", "degC", "hPa", "ppm", "ppb">>

\* Sensors(numberOfSensors): sensor_data is [None] * numberOfSensors (an empty
\* value per index) and sensor_units the first numberOfSensors units.
NoValue == [kind |-> "None", num |-> 0, den |-> 1]

\* A Sensors object that keeps the whole unit table.
SensorsInit_AllUnits(numberOfSensors) ==
    [sensor_version |-> 0,
     numberOfSensors |-> numberOfSensors,
     sensor_data |-> [i \in 1..numberOfSensors |-> NoValue],
     sensor_units |-> Units]

SensorsInit(numberOfSensors) ==
    [sensor_version |-> 0,
     numberOfSensors |-> numberOfSensors,
     sensor_data |-> [i \in 1..numberOfSensors |-> NoValue],
     sensor_units |-> SubSeq(Units, 1, numberOfSensors)]

\* Sensors.set on a version it supports; the caller takes the sys.exit branch
\* for every other version.
SensorsSet(self, rawData) ==
    [self EXCEPT
        !.sensor_version = rawData[1],
        !.sensor_data = [i \in 1..self.numberOfSensors |-> processor(rawData)[i - 1]]]

\* A Sensors.set that decodes whatever the version says.
Sensors_set_AnyVersion(self, rawData) ==
    [status |-> "ok", self |-> SensorsSet(self, rawData)]

\* Sensors.set(rawData): sensor_version is stored first; version 1 fills
\* sensor_data, any other version prints the error and calls sys.exit(1).
Sensors_set(self, rawData) ==
    IF rawData[1] = SupportedVersion
    THEN [status |-> "ok", self |-> SensorsSet(self, rawData)]
    ELSE [status |-> "UnsupportedVersion",
          self |-> [self EXCEPT !.sensor_version = rawData[1]]]

\* The reading kept between cycles before the first read: no Sensors object.
NoSensors ==
    [sensor_version |-> 0, numberOfSensors |-> 0,
     sensor_data |-> <<>>, sensor_units |-> <<>>]

\* Frames the characteristic may return. The first is the frame
\* 01 00 00 00 | 0064 0000 0000 0032 0190 03E8 0190 0096 (words little-endian).
FrameExample ==
    <<1, 0, 0, 0, 100, 0, 0, 0, 0, 0, 50, 0, 144, 1, 232, 3, 144, 1, 150, 0>>

\* Version 1, second byte 90, radon words 0x4000 (16384) and 0x3FFF (16383).
FrameRadonEdge ==
    <<1, 90, 0, 0, 0, 64, 255, 63, 34, 8, 16, 39, 200, 1, 10, 0, 0, 0, 0, 0>>

\* The example frame with version byte 2.
FrameVersion2 ==
    <<2, 0, 0, 0, 100, 0, 0, 0, 0, 0, 50, 0, 144, 1, 232, 3, 144, 1, 150, 0>>

\* A 16-byte answer (the example frame cut after its sixth word): struct.unpack
\* raises struct.error.
FrameTruncated ==
    <<1, 0, 0, 0, 100, 0, 0, 0, 0, 0, 50, 0, 144, 1, 232, 3>>

RawFrames == {FrameExample, FrameRadonEdge, FrameVersion2, FrameTruncated}

\* read() once the characteristic has answered with rawdata: struct.unpack
\* (struct.error unless the answer has 16 bytes), Sensors(numSensors) and
\* Sensors.set.
ReadDecode(rawdata, numberOfSensors) ==
    IF Len(rawdata) # FrameLen
    THEN [status |-> "StructError", self |-> NoSensors]
    ELSE Sensors_set(SensorsInit(numberOfSensors), struct_unpack(rawdata))

\* -------------------------------------------------------------------- state
VARIABLES
    SN,             \* self.SN: the target serial number
    uuid,           \* self.uuid: the characteristic read for this capability
    numSensors,     \* self.numSensors
    periph,         \* self.periph: the held connection, or NoHandle
    curr_val_char,  \* self.curr_val_char: the connection it was resolved on
    MacAddr,        \* self.MacAddr: the cached device address, or NoAddr
    searchCount,    \* connect(): scan bursts made in this discovery
    devices,        \* connect(): the devices of the last scan burst
    sensors,        \* the Sensors object of the last successful read
    pc,             \* the statement the program is at
    driver,         \* "main": the poll loop runs; "api": a client calls methods
    pending,        \* the exception in flight while the finally block runs
    err,            \* the error that ended the last call or the loop
    leftAt,         \* the statement at which the loop was left
    exitCode,       \* the exit status, once pc = "exited"
    cycle,          \* poll cycles completed
    calls,          \* method calls the api driver has made
    call,           \* the api driver's last call and the session on entry
    opens,          \* connections Peripheral(MacAddr) has returned so far
    \* counted within the current poll cycle, or the client's current call:
    scanCalls,      \* calls of scanner.scan
    resolves,       \* handles getCharacteristics returned
    charReads,      \* calls of curr_val_char.read
    closes,         \* calls of periph.disconnect
    discCalls,      \* calls of WavePlus.disconnect
    reads,          \* read() calls that returned a Sensors object
    reports,        \* rows printed
    \* a function of the program applied on its own to one input:
    arg,            \* the input
    result          \* what the function returned, once pc = "done"

harness == <<arg, result>>
obj == <<SN, uuid, numSensors>>
session == <<periph, curr_val_char, MacAddr>>
locals == <<searchCount, devices>>
ctl == <<pending, err, leftAt, exitCode>>
transport == <<scanCalls, opens, resolves, charReads, closes>>
vars ==
    <<SN, uuid, numSensors, periph, curr_val_char, MacAddr, searchCount,
      devices, sensors, pc, driver, pending, err, leftAt, exitCode, cycle,
      calls, call, scanCalls, opens, resolves, charReads, closes,
      discCalls, reads, reports, arg, result>>

UuidAirQuality == "b42e2a68-ade7-11e4-89d3-123b93f75cba"

UuidBasic == "b42e4dcc-ade7-11e4-89d3-123b93f75cba"

NoCall == [op |-> "none", periph |-> NoHandle, curr_val_char |-> NoHandle]

\* WavePlus.__init__(SerialNumber, hasAirQuality).
WavePlusInit(SerialNumber, hasAirQuality) ==
    /\ periph = NoHandle
    /\ curr_val_char = NoHandle
    /\ MacAddr = NoAddr
    /\ SN = SerialNumber
    /\ uuid = (IF hasAirQuality THEN UuidAirQuality ELSE UuidBasic)
    /\ numSensors = (IF hasAirQuality THEN NumSensorsAirQuality ELSE NumSensorsBasic)

InitProgram(d, firstPc) ==
    /\ \E serial \in TargetSerials, hasAirQuality \in BOOLEAN :
          WavePlusInit(serial, hasAirQuality)
    /\ searchCount = 0
    /\ devices = <<>>
    /\ sensors = NoSensors
    /\ pc = firstPc
    /\ driver = d
    /\ pending = "none"
    /\ err = "none"
    /\ leftAt = "none"
    /\ exitCode = 0
    /\ cycle = 0
    /\ calls = 0
    /\ call = NoCall
    /\ scanCalls = 0
    /\ opens = 0
    /\ resolves = 0
    /\ charReads = 0
    /\ closes = 0
    /\ discCalls = 0
    /\ reads = 0
    /\ reports = 0

\* No function is applied on its own while the program runs.
NoArg == "none"

InitWith(d, firstPc) ==
    /\ InitProgram(d, firstPc)
    /\ arg = NoArg
    /\ result = NoArg

\* The __main__ block after argument parsing: the object is constructed, the
\* header printed and the while loop about to call connect().
Init == InitWith("main", "connect")

\* A client that holds a fresh WavePlus object and calls its methods.
InitSession == InitWith("api", "idle")

\* ------------------------------------------------------------ control flow
\* Where a method returns to: the next statement of the loop, or the client.
Return(next) ==
    /\ pc' = (IF driver = "main" THEN next ELSE "idle")
    /\ UNCHANGED ctl

\* An exception of class Exception leaves the method: the loop's
\* `except Exception` clause catches it; the client sees it and goes on.
Raise(e) ==
    /\ pc' = (IF driver = "main" THEN "except" ELSE "idle")
    /\ err' = e
    /\ leftAt' = pc
    /\ UNCHANGED <<pending, exitCode>>

\* sys.exit(1) raises SystemExit, which `except Exception` does not catch:
\* in the loop the finally block runs with it in flight; a client's process
\* ends with status 1.
SysExit(e) ==
    /\ err' = e
    /\ leftAt' = pc
    /\ IF driver = "main"
       THEN pc' = "finally" /\ pending' = "SystemExit" /\ exitCode' = exitCode
       ELSE pc' = "exited" /\ pending' = pending /\ exitCode' = 1

\* ---------------------------------------------------------- WavePlus.connect
\* Entry of connect(): `if (self.MacAddr is None)` starts a discovery with
\* searchCount = 0; with a cached address the scan is skipped.
ConnectBegin ==
    /\ pc = "connect"
    /\ IF MacAddr = NoAddr
       THEN pc' = "scan" /\ searchCount' = 0
       ELSE pc' = "open" /\ searchCount' = searchCount
    /\ UNCHANGED <<harness, obj, session, devices, sensors, driver, ctl, cycle, calls,
                   call, transport, discCalls, reads, reports>>

\* The outcome of one burst once the for loop has run over its devices and the
\* while condition has been tested again.
AfterBurst(found) ==
    CASE found.res = "found" ->
            /\ MacAddr' = found.addr
            /\ pc' = "open"
            /\ UNCHANGED ctl
      [] found.res = "none" /\ searchCount + 1 < MaxSearch ->
            /\ MacAddr' = MacAddr
            /\ pc' = "scan"
            /\ UNCHANGED ctl
      [] found.res = "none" /\ searchCount + 1 >= MaxSearch ->
            /\ MacAddr' = MacAddr
            /\ SysExit("DeviceNotFound")
      [] OTHER ->
            /\ MacAddr' = MacAddr
            /\ Raise(found.res)

\* One pass of `while self.MacAddr is None and searchCount < 50`: a scan burst
\* and the for loop over its devices.
Scan ==
    /\ pc = "scan"
    /\ MacAddr = NoAddr
    /\ searchCount < MaxSearch
    /\ scanCalls' = scanCalls + 1
    /\ \/ \E ds \in ScanResults :
             /\ devices' = ds
             /\ searchCount' = searchCount + 1
             /\ AfterBurst(ForDevices(ds, 1, SN))
       \/ /\ Raise("ScanFailed")
          /\ UNCHANGED <<MacAddr, locals>>
    /\ UNCHANGED <<harness, obj, periph, curr_val_char, sensors, driver, cycle, calls,
                   call, opens, resolves, charReads, closes, discCalls, reads,
                   reports>>

\* A connect() that opens a connection whether or not one is held.
OpenNeeded_Always == TRUE

\* `if (self.periph is None)`: a connection is opened only when none is held.
OpenNeeded == periph = NoHandle

\* `if (self.periph is None): self.periph = Peripheral(self.MacAddr)` inside
\* the try block: a failure is re-raised as "Failed to connect".
Open ==
    /\ pc = "open"
    /\ \/ /\ OpenNeeded
          /\ opens' = opens + 1
          /\ periph' = opens + 1
          /\ pc' = "resolve"
          /\ UNCHANGED ctl
       \/ /\ OpenNeeded
          /\ Raise("ConnectionFailed")
          /\ UNCHANGED <<periph, opens>>
       \/ /\ ~OpenNeeded
          /\ pc' = "resolve"
          /\ UNCHANGED <<periph, opens, ctl>>
    \* the scanner's locals are dead once discovery is over
    /\ searchCount' = 0
    /\ devices' = <<>>
    /\ UNCHANGED <<harness, obj, curr_val_char, MacAddr, sensors, driver, cycle, calls,
                   call, scanCalls, resolves, charReads, closes, discCalls,
                   reads, reports>>

\* A connect() that returns without resolving the characteristic.
ResolveNeeded_Never == FALSE

\* `if (self.curr_val_char is None)`: the handle is resolved only when unset.
ResolveNeeded == curr_val_char = NoHandle

\* A connect() that drops the connection it opened when the characteristic
\* cannot be resolved.
ResolveFails_Releases ==
    /\ Raise("ConnectionFailed")
    /\ periph' = NoHandle
    /\ UNCHANGED <<curr_val_char, resolves>>

\* getCharacteristics raises, or returns no characteristic so that [0] raises:
\* the except clause re-raises "Failed to connect" and nothing is released.
ResolveFails ==
    /\ Raise("ConnectionFailed")
    /\ UNCHANGED <<periph, curr_val_char, resolves>>

\* `if (self.curr_val_char is None): self.curr_val_char =
\* self.periph.getCharacteristics(uuid=self.uuid)[0]`, then connect() returns.
Resolve ==
    /\ pc = "resolve"
    /\ \/ /\ ResolveNeeded
          /\ resolves' = resolves + 1
          /\ curr_val_char' = periph
          /\ periph' = periph
          /\ Return("read")
       \/ /\ ResolveNeeded
          /\ ResolveFails
       \/ /\ ~ResolveNeeded
          /\ Return("read")
          /\ UNCHANGED <<periph, curr_val_char, resolves>>
    /\ UNCHANGED <<harness, obj, MacAddr, locals, sensors, driver, cycle, calls,
                   call, scanCalls, opens, charReads, closes, discCalls, reads,
                   reports>>

\* ------------------------------------------------------------- WavePlus.read
\* A read() without the guard: None.read() is attempted and raises
\* AttributeError, an Exception.
ReadGuard_Missing ==
    /\ Raise("AttributeError")
    /\ charReads' = charReads + 1

\* `if (self.curr_val_char is None): print(...); sys.exit(1)`.
ReadGuard ==
    /\ SysExit("NotConnected")
    /\ charReads' = charReads

\* read(): the guard on curr_val_char, the characteristic read, struct.unpack
\* and Sensors.set (which exits on an unknown version).
Read ==
    /\ pc = "read"
    /\ \/ /\ curr_val_char = NoHandle
          /\ ReadGuard
          /\ UNCHANGED <<sensors, reads>>
       \/ /\ curr_val_char # NoHandle
          /\ charReads' = charReads + 1
          /\ \/ /\ Raise("ReadFailed")
                /\ UNCHANGED <<sensors, reads>>
             \/ \E rawdata \in RawFrames :
                   LET decoded == ReadDecode(rawdata, numSensors) IN
                   CASE decoded.status = "ok" ->
                           /\ sensors' = decoded.self
                           /\ reads' = reads + 1
                           /\ Return("report")
                     [] decoded.status = "UnsupportedVersion" ->
                           /\ SysExit("UnsupportedVersion")
                           /\ UNCHANGED <<sensors, reads>>
                     [] OTHER ->
                           /\ Raise(decoded.status)
                           /\ UNCHANGED <<sensors, reads>>
    /\ UNCHANGED <<harness, obj, session, locals, driver, cycle, calls, call, scanCalls,
                   opens, resolves, closes, discCalls, reports>>

\* ------------------------------------------------------- WavePlus.disconnect
\* A disconnect() that resets the whole session, the cached address too.
DisconnectDone_ForgetsAddress ==
    IF periph # NoHandle
    THEN /\ closes' = closes + 1
         /\ periph' = NoHandle
         /\ curr_val_char' = NoHandle
         /\ MacAddr' = NoAddr
    ELSE UNCHANGED <<closes, session>>

\* A disconnect() that closes the connection and keeps the stale objects.
DisconnectDone_KeepsHandle ==
    IF periph # NoHandle
    THEN /\ closes' = closes + 1
         /\ UNCHANGED session
    ELSE UNCHANGED <<closes, session>>

\* A disconnect() that drops the connection and keeps the characteristic.
DisconnectDone_KeepsChar ==
    IF periph # NoHandle
    THEN /\ closes' = closes + 1
         /\ periph' = NoHandle
         /\ UNCHANGED <<curr_val_char, MacAddr>>
    ELSE UNCHANGED <<closes, session>>

\* The body of disconnect() when periph.disconnect() returns, or when there is
\* no connection to close.
DisconnectDone ==
    IF periph # NoHandle
    THEN /\ closes' = closes + 1
         /\ periph' = NoHandle
         /\ curr_val_char' = NoHandle
         /\ MacAddr' = MacAddr
    ELSE UNCHANGED <<closes, session>>

\* The body of disconnect() when periph.disconnect() raises: the two
\* assignments after it are not reached.
DisconnectRaises ==
    /\ periph # NoHandle
    /\ closes' = closes + 1
    /\ UNCHANGED session

\* waveplus.disconnect() as a statement of the loop, or called by the client.
Disconnect ==
    /\ pc = "disconnect"
    /\ discCalls' = discCalls + 1
    /\ \/ DisconnectDone /\ Return("sleep")
       \/ DisconnectRaises /\ Raise("CloseFailed")
    /\ UNCHANGED <<harness, obj, locals, sensors, driver, cycle, calls, call, scanCalls,
                   opens, resolves, charReads, reads, reports>>

\* ------------------------------------------------------------ the poll loop
\* The statements of the `while True` body.
LoopPcs ==
    {"connect", "scan", "open", "resolve", "read", "report", "disconnect", "sleep"}

\* Building `data` from the formater table and printing the row.
Report ==
    /\ pc = "report"
    /\ reports' = reports + 1
    /\ pc' = "disconnect"
    /\ UNCHANGED <<harness, obj, session, locals, sensors, driver, ctl, cycle, calls,
                   call, transport, discCalls, reads>>

\* time.sleep(args.period) returns and the loop starts its next cycle.
Sleep ==
    /\ pc = "sleep"
    /\ cycle < MaxCycles
    /\ cycle' = cycle + 1
    /\ pc' = "connect"
    /\ scanCalls' = 0
    /\ resolves' = 0
    /\ charReads' = 0
    /\ closes' = 0
    /\ discCalls' = 0
    /\ reads' = 0
    /\ reports' = 0
    /\ UNCHANGED <<harness, obj, session, locals, sensors, driver, ctl, calls, call,
                   opens>>

\* Ctrl+C while the loop runs: KeyboardInterrupt is raised at the current
\* statement. It is no Exception, so only the finally block sees it. The stop
\* signal is one signal: a second Ctrl+C during the cleanup is not modelled.
Interrupt ==
    /\ pc \in LoopPcs
    /\ pc' = "finally"
    /\ pending' = "KeyboardInterrupt"
    /\ err' = "KeyboardInterrupt"
    /\ leftAt' = pc
    /\ UNCHANGED <<harness, obj, session, locals, sensors, driver, exitCode, cycle,
                   calls, call, transport, discCalls, reads, reports>>

\* An except clause inside the loop: the error is printed and the loop goes
\* on with its next cycle.
Except_Retries ==
    /\ pc = "except"
    /\ pc' = "connect"
    /\ UNCHANGED <<harness, obj, session, locals, sensors, driver, ctl, cycle, calls,
                   call, transport, discCalls, reads, reports>>

\* `except Exception as e: print(str(e))`: the exception is handled.
Except ==
    /\ pc = "except"
    /\ pc' = "finally"
    /\ UNCHANGED <<harness, obj, session, locals, sensors, driver, ctl, cycle, calls,
                   call, transport, discCalls, reads, reports>>

\* The status the interpreter exits with when the finally block is left with
\* the given exception in flight. An unhandled KeyboardInterrupt ends the
\* process with status 1 or by re-raising SIGINT (seen as 130), depending on
\* the interpreter's version; any other unhandled exception gives 1.
ExitStatus(inFlight) ==
    CASE inFlight = "none" -> {0}
      [] inFlight = "SystemExit" -> {1}
      [] inFlight = "KeyboardInterrupt" -> {1, 130}
      [] OTHER -> {1}

\* A program without the finally block: the interpreter exits at once.
Finally_NoCleanup ==
    /\ pc = "finally"
    /\ pc' = "exited"
    /\ exitCode' \in ExitStatus(pending)
    /\ UNCHANGED <<harness, obj, session, locals, sensors, driver, pending, err,
                   leftAt, cycle, calls, call, transport, discCalls, reads,
                   reports>>

\* `finally: waveplus.disconnect()`, then the interpreter exits. An exception
\* raised by the cleanup replaces the one in flight.
Finally ==
    /\ pc = "finally"
    /\ discCalls' = discCalls + 1
    /\ \/ DisconnectDone /\ pending' = pending
       \/ DisconnectRaises /\ pending' = "CloseFailed"
    /\ pc' = "exited"
    /\ exitCode' \in ExitStatus(pending')
    /\ UNCHANGED <<harness, obj, locals, sensors, driver, err, leftAt, cycle, calls,
                   call, scanCalls, opens, resolves, charReads, reads, reports>>

\* --------------------------------------------------------------- a client
\* A client calls one of the three methods of the session object.
Call(op) ==
    /\ pc = "idle"
    /\ calls < MaxCalls
    /\ calls' = calls + 1
    /\ call' = [op |-> op, periph |-> periph, curr_val_char |-> curr_val_char]
    /\ pc' = op
    /\ err' = "none"
    /\ leftAt' = "none"
    \* the locals of the call before are gone
    /\ searchCount' = 0
    /\ devices' = <<>>
    /\ scanCalls' = 0
    /\ resolves' = 0
    /\ charReads' = 0
    /\ closes' = 0
    /\ discCalls' = 0
    /\ reads' = 0
    /\ UNCHANGED <<harness, obj, session, sensors, driver, pending, exitCode, cycle,
                   opens, reports>>

CallConnect == Call("connect")

CallRead == Call("read")

CallDisconnect == Call("disconnect")

\* ------------------------------------------------------------ specifications
Next ==
    \/ ConnectBegin
    \/ Scan
    \/ Open
    \/ Resolve
    \/ Read
    \/ Report
    \/ Disconnect
    \/ Sleep
    \/ Interrupt
    \/ Except
    \/ Finally

Spec == Init /\ [][Next]_vars

NextSession ==
    \/ CallConnect
    \/ CallRead
    \/ CallDisconnect
    \/ ConnectBegin
    \/ Scan
    \/ Open
    \/ Resolve
    \/ Read
    \/ Disconnect

SpecSession == InitSession /\ [][NextSession]_vars

\* ------------------------------------------- functions applied on their own
\* The 16 bytes of eight 16-bit words, low byte first.
WordsLE(w) ==
    [i \in 1..(2 * Len(w)) |->
        IF i % 2 = 1 THEN w[(i + 1) \div 2] % 256 ELSE w[i \div 2] \div 256]

\* Answers of the characteristic given to read(): the frames above, and every
\* frame with one of four version bytes, one of two second bytes, and each of
\* its eight words either 100 or 16384.
DecodeFrames ==
    RawFrames \cup
    { <<version, second, 0, 0>> \o WordsLE(w) :
        version \in {0, 1, 2, 255}, second \in {0, 90},
        w \in [1..8 -> {100, 16384}] }

\* What stays the same while a function is applied on its own.
PureFrame ==
    UNCHANGED <<arg, obj, session, locals, sensors, driver, ctl, cycle, calls,
                call, transport, discCalls, reads, reports>>

\* read() from `rawdata = struct.unpack(...)` on, for the answer arg and the
\* object's numSensors.
ApplyDecode ==
    /\ pc = "apply"
    /\ driver = "decode"
    /\ result' = ReadDecode(arg, numSensors)
    /\ pc' = "done"
    /\ PureFrame

InitDecode ==
    /\ InitProgram("decode", "apply")
    /\ arg \in DecodeFrames
    /\ result = NoArg

SpecDecode == InitDecode /\ [][ApplyDecode]_vars

\* The text getValueText(255) gives for manufacturer data of these bytes: two
\* hex digits per byte, high digit first.
hexlify(bytes) ==
    [i \in 1..(2 * Len(bytes)) |->
        IF i % 2 = 1 THEN bytes[(i + 1) \div 2] \div 16 ELSE bytes[i \div 2] % 16]

\* Manufacturer data on the air: an ID (0x0334, its bytes swapped, or 0x004c),
\* four serial bytes and filler, cut at every length from 0 to MaxPayload.
\* The last serial byte stays below 128 so that the serial fits the checker's
\* signed 32-bit integers.
PayloadBytes ==
    { SubSeq(id \o <<b2, b3, b4, b5>> \o [i \in 1..(MaxPayload - 6) |-> 170], 1, n) :
        id \in {<<52, 3>>, <<3, 52>>, <<76, 0>>},
        b2 \in {0, 1, 255}, b3 \in {0, 1, 255}, b4 \in {0, 1, 255},
        b5 \in {0, 1, 127}, n \in 0..MaxPayload }

\* Values of dev.getValueText(255): absent, the string "None", or hex text.
ParseInputs ==
    {ManuNone, ManuNoneStr} \cup { ManuHex(hexlify(bytes)) : bytes \in PayloadBytes }

\* One pass of connect()'s for loop over a burst holding one device with
\* manufacturer data arg: parseSerialNumber(arg), and whether the device is
\* taken for the object's serial number SN.
ApplyParse ==
    /\ pc = "apply"
    /\ driver = "parse"
    /\ result' = [sn |-> parseSerialNumber(arg),
                  pick |-> ForDevices(<<[addr |-> "a1", manu |-> arg]>>, 1, SN)]
    /\ pc' = "done"
    /\ PureFrame

InitParse ==
    /\ InitProgram("parse", "apply")
    /\ arg \in ParseInputs
    /\ result = NoArg

SpecParse == InitParse /\ [][ApplyParse]_vars

\* The version-1 frame whose eight words all are raw and whose second byte is
\* the low byte of raw.
FrameOfWord(raw) ==
    <<SupportedVersion, raw % 256, 0, 0>> \o WordsLE([i \in 1..8 |-> raw])

\* conv2radon(arg) for a raw 16-bit value, and the reading read() returns
\* when every word of the frame is that value.
ApplyRadon ==
    /\ pc = "apply"
    /\ driver = "radon"
    /\ result' = [radon |-> conv2radon(arg),
                  reading |-> ReadDecode(FrameOfWord(arg), numSensors)]
    /\ pc' = "done"
    /\ PureFrame

InitRadon ==
    /\ InitProgram("radon", "apply")
    /\ arg \in 0..WordMax
    /\ result = NoArg

SpecRadon == InitRadon /\ [][ApplyRadon]_vars

\* =================================================================== claims

\* The positions of a burst whose advertisement parses to the target serial.
Matching(devs, target) ==
    {i \in 1..Len(devs) : parseSerialNumber(devs[i].manu) = SNValue(target)}

\* A step of connect() in which a scan burst was made.
BurstMade == pc = "scan" /\ searchCount' = searchCount + 1

\* C1: while the address is unresolved, connect() scans until a burst holds an
\* advertisement that parses to the target serial or 50 bursts are made: a
\* burst with a match ends discovery with that device's address cached; a burst
\* without one is followed by the next burst, and the 50th such burst by
\* DeviceNotFound, with no connection ever opened.
C1_DiscoveryClaim ==
    [][BurstMade =>
          IF Matching(devices', SN) # {}
          THEN /\ \E i \in Matching(devices', SN) : MacAddr' = devices'[i].addr
               /\ pc' = "open"
          ELSE /\ MacAddr' = NoAddr
               /\ searchCount' < MaxSearch => pc' = "scan"
               /\ searchCount' >= MaxSearch =>
                     err' = "DeviceNotFound" /\ pc' = "finally" /\ opens' = 0
      ]_vars

\* C2: once MacAddr is resolved it never changes or is cleared, and no step
\* calls the scan primitive again.
C2_AddressCachedOnce ==
    [][MacAddr # NoAddr =>
          /\ MacAddr' = MacAddr
          /\ scanCalls' <= scanCalls
          /\ pc' # "scan"
      ]_vars

\* C2 witness: a later poll cycle's connect() has passed to the connection
\* step with the address of the first cycle, without a scan in this cycle.
C2_Witness ==
    /\ cycle >= 1
    /\ pc = "resolve"
    /\ MacAddr # NoAddr
    /\ scanCalls = 0

\* C3: whichever way the loop ends, disconnect() has run before the process
\* exits and no transport connection is held at exit.
C3_CleanupClaim ==
    pc = "exited" => discCalls >= 1 /\ periph = NoHandle

\* C4: disconnect() always succeeds: it leaves periph and curr_val_char None,
\* raises nothing, and closes nothing when no connection is held.
C4_DisconnectClaim ==
    [][pc = "disconnect" =>
          /\ periph' = NoHandle
          /\ curr_val_char' = NoHandle
          /\ err' = err
          /\ pc' = "idle"
          /\ periph = NoHandle => closes' = closes
      ]_vars

\* C5 as stated: a ConnectionFailed raised by connect() does not end the loop.
C5_AbsorbedClaim ==
    err = "ConnectionFailed" => pc \in LoopPcs \cup {"except"}

\* C5 amended: a ConnectionFailed raised by connect() ends the poll loop: the
\* program goes through the except clause and the finally block to its exit,
\* no later cycle runs connect() again, and the cached address is kept but not
\* used again (no scan, no new connection).
C5_ConnectionFailedEndsLoop ==
    [][err = "ConnectionFailed" =>
          /\ pc = "except" => pc' = "finally"
          /\ pc = "finally" => pc' = "exited"
          /\ pc \in {"except", "finally"}
          /\ MacAddr' = MacAddr
          /\ <<cycle', scanCalls', opens'>> = <<cycle, scanCalls, opens>>
      ]_vars

\* C5 witness: the process has exited on a ConnectionFailed with the address
\* resolved.
C5_Witness ==
    /\ pc = "exited"
    /\ err = "ConnectionFailed"
    /\ MacAddr # NoAddr
    /\ exitCode = 0

\* C6 as stated: disconnect() has been called exactly once in every poll
\* cycle, whether the cycle reaches its sleep or the process exits in it.
C6_ExactlyOnceClaim ==
    pc \in {"sleep", "exited"} => discCalls = 1

\* The loop was left at or after its own disconnect() call: that call raised,
\* or the cycle was interrupted during the sleep that follows it.
LeftAfterLoopDisconnect ==
    \/ leftAt = "sleep"
    \/ leftAt = "disconnect" /\ err = "CloseFailed"

\* C6 amended: disconnect() is called exactly once in every cycle that reaches
\* its sleep and in every cycle cut short before the loop's own disconnect()
\* call (a read() that raises included); a cycle cut short at or after that
\* call sees the cleanup call as a second one, and never more than two.
C6_OncePerCycle ==
    /\ pc = "sleep" => discCalls = 1
    /\ pc = "exited" => discCalls = (IF LeftAfterLoopDisconnect THEN 2 ELSE 1)
    /\ pc \in {"except", "finally"} =>
          discCalls = (IF LeftAfterLoopDisconnect THEN 1 ELSE 0)

\* C6 witness: the process has exited from a cycle in which read() raised.
C6_Witness ==
    /\ pc = "exited"
    /\ leftAt = "read"
    /\ err \in {"ReadFailed", "StructError", "UnsupportedVersion"}
    /\ discCalls = 1

\* C7: a cycle runs connect(), read(), report, disconnect(), sleep in this
\* order: a row is reported only after the successful read of the same cycle,
\* the loop's disconnect() follows every report, and at the sleep and at the
\* start of the next cycle no connection and no characteristic is held.
C7_CycleOrder ==
    [][/\ pc' \in {"scan", "open"} /\ pc' # pc => pc \in {"connect", "scan"}
       /\ pc' = "resolve" => pc = "open"
       /\ pc' = "read" => pc = "resolve"
       /\ pc' = "report" =>
             pc = "read" /\ charReads' = 1 /\ reads' = 1 /\ reports' = 0
       /\ pc' = "disconnect" =>
             pc = "report" /\ reads' = 1 /\ reports' = 1 /\ discCalls' = 0
       /\ pc' = "sleep" =>
             /\ pc = "disconnect"
             /\ discCalls' = 1
             /\ closes' = 1
             /\ periph' = NoHandle
             /\ curr_val_char' = NoHandle
       /\ pc' = "connect" =>
             pc = "sleep" /\ periph' = NoHandle /\ curr_val_char' = NoHandle
      ]_vars

\* C7 witness: the second cycle is suspended in its sleep after a report.
C7_Witness ==
    /\ pc = "sleep"
    /\ cycle = 1
    /\ reports = 1
    /\ periph = NoHandle

\* C8: read() without a resolved characteristic fails with NotConnected and
\* reads nothing from the transport; the characteristic is read once, and only
\* by a read() that finds the handle resolved.
C8_ReadNeedsCharacteristic ==
    [][/\ pc = "read" /\ curr_val_char = NoHandle =>
             /\ err' = "NotConnected"
             /\ pc' = "exited"
             /\ charReads' = charReads
             /\ sensors' = sensors
       /\ charReads' > charReads =>
             /\ pc = "read"
             /\ curr_val_char # NoHandle
             /\ charReads' = charReads + 1
      ]_vars

\* C8 witness: a client's read() on a session without a handle has ended the
\* process with NotConnected, nothing having been read.
C8_Witness ==
    /\ pc = "exited"
    /\ err = "NotConnected"
    /\ call.op = "read"
    /\ charReads = 0

\* The statements of connect().
ConnectPcs == {"connect", "scan", "open", "resolve"}

\* C9: connect() with a connection held opens no second one; with the handle
\* resolved it resolves nothing and leaves the session as it found it, so a
\* second successful connect() changes nothing.
C9_ConnectIdempotent ==
    [][(pc \in ConnectPcs) =>
          /\ periph # NoHandle => periph' = periph /\ opens' = opens
          /\ curr_val_char # NoHandle =>
                /\ <<periph', curr_val_char', MacAddr'>> = session
                /\ <<opens', resolves', scanCalls'>> = <<opens, resolves, scanCalls>>
                /\ err' = err
      ]_vars

\* C9 witness: a connect() called on a connected session has returned with the
\* one connection and the same handle.
C9_Witness ==
    /\ pc = "idle"
    /\ call.op = "connect"
    /\ call.curr_val_char # NoHandle
    /\ err = "none"
    /\ opens = 1
    /\ periph = call.periph
    /\ curr_val_char = call.curr_val_char

\* C10: the exit status is 1 exactly for DeviceNotFound, UnsupportedVersion
\* and NotConnected, and 0 for every other end of the run.
C10_ExitCodeClaim ==
    pc = "exited" =>
       exitCode =
          (IF err \in {"DeviceNotFound", "UnsupportedVersion", "NotConnected"}
           THEN 1 ELSE 0)

\* ------------------------------------------------------------ Sensors claims
\* The k-th (0-based) little-endian 16-bit word behind the 4 leading bytes.
FrameWord(frame, k) == frame[5 + 2 * k] + 256 * frame[6 + 2 * k]

\* Python's == on two sensor values: numbers compare by value (50 == 50.0),
\* "N/A" and None only equal themselves.
ValueEq(a, b) ==
    IF a.kind \in {"float", "int"} /\ b.kind \in {"float", "int"}
    THEN a.num * b.den = b.num * a.den
    ELSE a.kind = b.kind

Decoded == pc = "done" /\ driver = "decode" /\ Len(arg) = FrameLen

\* C11: Sensors.set ends in UnsupportedVersion for every 20-byte frame whose
\* version byte is not 1, whatever the other bytes are, with every entry of
\* sensor_data still None; for version byte 1 it never fails.
C11_VersionGate ==
    Decoded =>
       IF arg[1] = 1
       THEN result.status = "ok"
       ELSE /\ result.status = "UnsupportedVersion"
            /\ \A i \in DOMAIN result.self.sensor_data :
                  result.self.sensor_data[i] = NoValue

\* C11 witness: version byte 255 in front of a non-zero second byte and words
\* that version 1 would decode has been refused.
C11_Witness ==
    /\ Decoded
    /\ arg[1] = 255
    /\ arg[2] = 90
    /\ FrameWord(arg, 0) = 100
    /\ result.status = "UnsupportedVersion"
    /\ numSensors = NumSensorsAirQuality

\* The number of entries of sensor_data that hold a value.
Populated(reading) ==
    Cardinality({i \in DOMAIN reading.sensor_data : reading.sensor_data[i] # NoValue})

\* C12: every reading read() returns has as many populated values and as many
\* units as the object's numSensors, which is 4 or 7 and never changes.
C12_ReadingSize ==
    [][ /\ numSensors' = numSensors
        /\ numSensors' \in {NumSensorsBasic, NumSensorsAirQuality}
        /\ (sensors' # NoSensors) =>
              /\ Populated(sensors') = numSensors'
              /\ Len(sensors'.sensor_data) = numSensors'
              /\ Len(sensors'.sensor_units) = numSensors'
      ]_vars

\* C12 witness: the second poll cycle of a device without air quality sensors
\* has read a reading of 4 values and 4 units.
C12_Witness ==
    /\ pc = "report"
    /\ cycle = 1
    /\ numSensors = NumSensorsBasic
    /\ Populated(sensors) = NumSensorsBasic
    /\ Len(sensors.sensor_units) = NumSensorsBasic

\* The values of the example frame as the claim gives them (humidity, radon
\* short term, temperature, pressure, CO2, VOC; the long-term radon word is 0).
ClaimedExample ==
    <<Float(100, 2), IntVal(50), IntVal(0), Float(400, 100), Float(1000, 50),
      IntVal(400), IntVal(150)>>

\* C13 as stated: humidity is half the first 16-bit word, and the example
\* frame decodes to 50.0, 50, 4.00, 20.0, 400 and 150.
C13_DecodeClaim ==
    (Decoded /\ result.status = "ok") =>
       /\ ValueEq(result.self.sensor_data[1], Float(FrameWord(arg, 0), 2))
       /\ (arg = FrameExample /\ numSensors = NumSensorsAirQuality) =>
             \A i \in {1, 2, 4, 5, 6, 7} :
                ValueEq(result.self.sensor_data[i], ClaimedExample[i])

\* What the example frame decodes to: 0.0 %rH, 100 and 0 Bq/m3, 0.0 degC,
\* 1.0 hPa, 400.0 ppm, 1000.0 ppb.
DecodedExample ==
    <<Float(0, 2), IntVal(100), IntVal(0), Float(0, 100), Float(50, 50),
      IntVal(400), IntVal(1000)>>

\* C13 amended: humidity is half the second leading byte; radon short and
\* long term are words 0 and 1 (through conv2radon), temperature word 2 / 100,
\* pressure word 3 / 50, CO2 word 4 and VOC word 5; the example frame decodes
\* to 0.0, 100, 0, 0.0, 1.0, 400.0 and 1000.0.
C13_DecodeLayout ==
    (Decoded /\ result.status = "ok") =>
       LET data == result.self.sensor_data
           radon(k) == IF FrameWord(arg, k) <= RadonMax
                       THEN IntVal(FrameWord(arg, k)) ELSE NotAvailable
           expect == <<Float(arg[2], 2), radon(0), radon(1),
                       Float(FrameWord(arg, 2), 100), Float(FrameWord(arg, 3), 50),
                       IntVal(FrameWord(arg, 4)), IntVal(FrameWord(arg, 5))>>
       IN /\ \A i \in 1..numSensors : ValueEq(data[i], expect[i])
          /\ (arg = FrameExample) =>
                \A i \in 1..numSensors : ValueEq(data[i], DecodedExample[i])

\* C13 witness: the example frame has been decoded with all seven sensors.
C13_Witness ==
    /\ Decoded
    /\ arg = FrameExample
    /\ numSensors = NumSensorsAirQuality
    /\ result.status = "ok"
    /\ ValueEq(result.self.sensor_data[7], IntVal(1000))

\* C17: conv2radon returns the raw value for 0..16383 and "N/A" for
\* 16384..65535, and in a reading "N/A" appears in no field but the two
\* radon fields.
C17_RadonSentinel ==
    (pc = "done" /\ driver = "radon") =>
       /\ (arg \in 0..16383) => result.radon = IntVal(arg)
       /\ (arg \in 16384..65535) => result.radon = NotAvailable
       /\ result.reading.status = "ok"
       /\ \A i \in DOMAIN result.reading.self.sensor_data :
             IF i \in {2, 3}
             THEN result.reading.self.sensor_data[i] = result.radon
             ELSE result.reading.self.sensor_data[i] # NotAvailable

\* C17 witness: the largest raw value that passes has been converted, in a
\* reading with all seven fields.
C17_Witness ==
    /\ pc = "done"
    /\ driver = "radon"
    /\ arg = 16383
    /\ result.radon = IntVal(16383)
    /\ numSensors = NumSensorsAirQuality

\* C17 witness of the other range: 16384 has become "N/A" in both radon
\* fields.
C17_WitnessSentinel ==
    /\ pc = "done"
    /\ driver = "radon"
    /\ arg = 16384
    /\ result.reading.self.sensor_data[2] = NotAvailable
    /\ result.reading.self.sensor_data[3] = NotAvailable

\* -------------------------------------------------- parseSerialNumber claims
\* Byte k (0-based) of the payload whose hex text is h, and their number.
HexByte(h, k) == 16 * h[2 * k + 1] + h[2 * k + 2]

HexLen(h) == Len(h) \div 2

Parsed == pc = "done" /\ driver = "parse"

HasId(h) == HexLen(h) >= 2 /\ HexByte(h, 0) = 52 /\ HexByte(h, 1) = 3

\* C14: for a payload of at least 6 bytes that starts with 34 03,
\* parseSerialNumber returns byte2 + 256*byte3 + 65536*byte4 + 16777216*byte5.
C14_SerialLittleEndian ==
    (Parsed /\ arg.kind = "hex" /\ HexLen(arg.hex) >= 6 /\ HasId(arg.hex)) =>
       result.sn =
          SNValue(HexByte(arg.hex, 2)
                  + 256 * (HexByte(arg.hex, 3)
                           + 256 * (HexByte(arg.hex, 4) + 256 * HexByte(arg.hex, 5))))

\* C14 witness: 34 03 ff 01 00 7f followed by a further byte has been parsed
\* to 0x7f0001ff.
C14_Witness ==
    /\ Parsed
    /\ arg.kind = "hex"
    /\ HexLen(arg.hex) = 7
    /\ HasId(arg.hex)
    /\ result.sn = SNValue(2130706943)

\* C15: parseSerialNumber returns "Unknown" for an absent value and for a
\* payload whose two-byte ID is not 0x0334, and the discovery loop does not
\* take such a device, whatever serial number is looked for.
C15_UnknownNotSelected ==
    (Parsed /\ (arg.kind # "hex" \/ (HexLen(arg.hex) >= 2 /\ ~HasId(arg.hex)))) =>
       /\ result.sn = SNUnknown
       /\ result.pick.res = "none"

\* C15 witness: a payload of another vendor that carries the bytes of the
\* serial number looked for has been passed over.
C15_Witness ==
    /\ Parsed
    /\ arg = PayloadForeign
    /\ SN = 1
    /\ result.sn = SNUnknown
    /\ result.pick.res = "none"

\* C16: on a payload shorter than 6 bytes parseSerialNumber returns "Unknown"
\* and the discovery loop goes on past the device.
C16_ShortPayloadClaim ==
    (Parsed /\ arg.kind = "hex" /\ HexLen(arg.hex) < 6) =>
       /\ result.sn = SNUnknown
       /\ result.pick.res = "none"

\* ------------------------------------------------------------ session claims
\* C18: in the poll loop read() is entered only with the characteristic
\* resolved, so that its "not connected" exit never happens.
C18_ReadAfterConnect ==
    /\ (pc = "read") => curr_val_char # NoHandle
    /\ err # "NotConnected"

\* C18 witness: in the second cycle connect() has returned to the loop, after
\* resolving the characteristic again, and read() is next.
C18_Witness ==
    /\ pc = "read"
    /\ cycle = 1
    /\ resolves = 1
    /\ curr_val_char # NoHandle

\* C19: in a session a resolved characteristic implies a held connection, and
\* a held connection implies a cached address.
C19_SessionChain ==
    /\ (curr_val_char # NoHandle) => (periph # NoHandle)
    /\ (periph # NoHandle) => (MacAddr # NoAddr)

\* C19 witness: a disconnect() whose close failed has returned to the client
\* with characteristic, connection and address all still held.
C19_Witness ==
    /\ pc = "idle"
    /\ driver = "api"
    /\ call.op = "disconnect"
    /\ err = "CloseFailed"
    /\ curr_val_char # NoHandle
    /\ periph # NoHandle
    /\ MacAddr # NoAddr

\* connect() has raised its connection failure from the characteristic
\* resolution and the loop has not yet cleaned up.
ResolveFailed ==
    /\ leftAt = "resolve"
    /\ err = "ConnectionFailed"
    /\ pc \in {"except", "finally"}

\* C20: when the characteristic resolution fails, connect() raises the
\* connection failure with the connection held and no characteristic; the
\* connection is given up in no step but a disconnect(), and the loop's
\* finally block calls disconnect(), which closes that connection (and drops
\* it when the close returns).
C20_HalfOpenUntilCleanup ==
    [][ /\ (pc = "resolve" /\ err' = "ConnectionFailed" /\ pc' = "except") =>
              /\ periph # NoHandle
              /\ periph' = periph
              /\ curr_val_char' = NoHandle
        /\ (periph # NoHandle /\ periph' # periph) =>
              /\ pc \in {"disconnect", "finally"}
              /\ discCalls' = discCalls + 1
              /\ periph' = NoHandle
        /\ (ResolveFailed /\ pc = "except") =>
              /\ pc' = "finally"
              /\ periph' = periph
        /\ (ResolveFailed /\ pc = "finally") =>
              /\ periph # NoHandle
              /\ discCalls' = discCalls + 1
              /\ closes' = closes + 1
              /\ (pending' # "CloseFailed") => (periph' = NoHandle)
      ]_vars

\* C20 witness: the loop has reached its finally block after a failed
\* resolution, with the connection open and no characteristic.
C20_Witness ==
    /\ ResolveFailed
    /\ pc = "finally"
    /\ periph # NoHandle
    /\ curr_val_char = NoHandle
    /\ opens = 1

====
